---- MODULE Spec2Model ----
(***************************************************************************)
(* Startup bootstrap of the PHOEBE GUI: main() and parse_startup_line()    *)
(* of phoebe-gui/src/phoebe_gui_main.c.                                    *)
(*                                                                         *)
(* Strings of the command line are sequences of one-character strings, so  *)
(* that strcmp() is sequence equality and argv[i][0] is the first element  *)
(* (or the terminating NUL for the empty string).                          *)
(*                                                                         *)
(* Every call to a collaborator (engine, configuration subsystem, GUI,     *)
(* toolkit, stdout) is appended to the history variable calls, together    *)
(* with the value of PHOEBE_FILEFLAG / PHOEBE_FILENAME at the time of the  *)
(* call.                                                                   *)
(***************************************************************************)
EXTENDS Integers, Sequences, FiniteSets, TLC

\* Longest command line (argv[0] excluded) that is explored.
MaxArgs == 3

\* ---------------------------------------------------------------- strings
Tok_h       == <<"-", "h">>
Tok_q       == <<"-", "?">>
Tok_help    == <<"-", "-", "h", "e", "l", "p">>
Tok_v       == <<"-", "v">>
Tok_version == <<"-", "-", "v", "e", "r", "s", "i", "o", "n">>
Tok_x       == <<"-", "x">>
Tok_dash    == <<"-">>
Tok_a       == <<"a">>
Tok_b       == <<"b">>
Tok_empty   == <<>>

\* The tokens a command line is drawn from: every spelling the parser
\* compares against, two other '-'-prefixed tokens, two paths and "".
Tokens ==
    {Tok_h, Tok_q, Tok_help, Tok_v, Tok_version,
     Tok_x, Tok_dash, Tok_a, Tok_b, Tok_empty}

RECURSIVE SeqsUpTo(_, _)
SeqsUpTo(S, n) ==
    IF n = 0 THEN {<<>>}
    ELSE LET shorter == SeqsUpTo(S, n - 1)
         IN  shorter \cup {Append(s, t) : s \in {q \in shorter : Len(q) = n - 1}, t \in S}

\* ----------------------------------------------------------- status codes
SUCCESS                            == "SUCCESS"
ERROR_PHOEBE_CONFIG_SUPPORTED_FILE == "ERROR_PHOEBE_CONFIG_SUPPORTED_FILE"
ERROR_PHOEBE_CONFIG_LEGACY_FILE    == "ERROR_PHOEBE_CONFIG_LEGACY_FILE"
ERROR_PHOEBE_CONFIG_NOT_FOUND      == "ERROR_PHOEBE_CONFIG_NOT_FOUND"
ERROR_OTHER                        == "ERROR_OTHER"
ERROR_FILE_NOT_FOUND               == "ERROR_FILE_NOT_FOUND"
UNINITIALIZED                      == "UNINITIALIZED"

\* What phoebe_init() can return.
InitOutcomes == {SUCCESS, ERROR_OTHER}

\* What phoebe_configure() can return: the three codes main() tests for,
\* SUCCESS, and any other error code.
ConfigureOutcomes ==
    {SUCCESS, ERROR_PHOEBE_CONFIG_SUPPORTED_FILE,
     ERROR_PHOEBE_CONFIG_LEGACY_FILE, ERROR_PHOEBE_CONFIG_NOT_FOUND, ERROR_OTHER}

\* What phoebe_open_parameter_file() can return.
LoadOutcomes == {SUCCESS, ERROR_FILE_NOT_FOUND}

\* Value of PHOEBE_FILENAME before any parameter file was opened.
Undefined == <<"U", "n", "d", "e", "f", "i", "n", "e", "d">>

VARIABLES
    pc,               \* position of main()
    argv,             \* argv[1 .. argc-1], as left by gtk_init()
    i,                \* loop index of parse_startup_line()
    status,           \* main()'s status
    configswitch,     \* main()'s configswitch
    psl_status,       \* parse_startup_line()'s own status
    PHOEBE_FILEFLAG,
    PHOEBE_FILENAME,
    calls,            \* history: collaborator calls, in order
    exit_code         \* <<>> while running, <<c>> after the process ended with c

vars == <<pc, argv, i, status, configswitch, psl_status,
          PHOEBE_FILEFLAG, PHOEBE_FILENAME, calls, exit_code>>

argc == Len(argv) + 1

\* One entry of the call history.
Call(fn, arg, ret, ff, fname) ==
    [fn |-> fn, arg |-> arg, ret |-> ret, fileflag |-> ff, filename |-> fname]

Here(fn, arg, ret) == Call(fn, arg, ret, PHOEBE_FILEFLAG, PHOEBE_FILENAME)

\* ------------------------------------------------------- parse_startup_line
IsHelpNoQuestionMark(tok) == tok = Tok_h \/ tok = Tok_help
IsHelp(tok) == tok = Tok_h \/ tok = Tok_q \/ tok = Tok_help

IsVersionShortOnly(tok) == tok = Tok_v
IsVersion(tok) == tok = Tok_v \/ tok = Tok_version

\* argv[i][0] != '-'
IsParamFileNonEmpty(tok) == tok /= <<>> /\ Head(tok) /= "-"
IsParamFileAnyUnknown(tok) == ~IsHelp(tok) /\ ~IsVersion(tok)
IsParamFile(tok) == IF tok = <<>> THEN TRUE ELSE Head(tok) /= "-"

\* phoebe_error (status): the message of an error code.
phoebe_error(st) == <<"e", "r", "r", "o", "r", ":", " ">> \o <<st>>

\* phoebe_quit (): tears the engine down and ends the process.
phoebe_quit(ff, fname) == <<Call("phoebe_quit", <<>>, "noreturn", ff, fname)>>
PhoebeQuitExitCode == <<0>>

\* Lines 122-126: the usage text, then phoebe_quit ().
HelpCallsNoQuit(ff, fname) ==
    <<Call("printf", <<"usage">>, "void", ff, fname)>>
HelpCalls(ff, fname) ==
    <<Call("printf", <<"usage">>, "void", ff, fname)>> \o phoebe_quit(ff, fname)

\* Lines 131-133: release name and date, then phoebe_quit ().
VersionCalls(ff, fname) ==
    <<Call("printf", <<"version">>, "void", ff, fname)>> \o phoebe_quit(ff, fname)

\* Lines 142-147: the collaborator calls of one parameter-file argument.
LoadCallsRefreshAfterUpdate(path, st, ff, fname) ==
    <<Call("phoebe_open_parameter_file", path, st, ff, fname)>> \o
    (IF st /= SUCCESS
     THEN <<Call("phoebe_gui_output", phoebe_error(st), "void", ff, fname)>>
     ELSE <<Call("gui_reinit_treeviews", <<>>, "void", TRUE, path),
            Call("gui_set_values_to_widgets", <<>>, "void", TRUE, path)>>)
LoadCalls(path, st, ff, fname) ==
    <<Call("phoebe_open_parameter_file", path, st, ff, fname)>> \o
    (IF st /= SUCCESS
     THEN <<Call("phoebe_gui_output", phoebe_error(st), "void", ff, fname)>>
     ELSE <<Call("gui_reinit_treeviews", <<>>, "void", ff, fname),
            Call("gui_set_values_to_widgets", <<>>, "void", ff, fname)>>)

\* Line 148.
FileFlagAfterLoadAlways(st, ff) == TRUE
FileFlagAfterLoad(st, ff) == IF st /= SUCCESS THEN ff ELSE TRUE

\* Line 149.
FileNameAfterLoadOnFailureToo(st, path, fname) == path
FileNameAfterLoadFirstOnly(st, path, fname) ==
    IF st /= SUCCESS \/ fname /= Undefined THEN fname ELSE path
FileNameAfterLoad(st, path, fname) == IF st /= SUCCESS THEN fname ELSE path

\* ------------------------------------------------------------------- main
\* Lines 185-193.
ConfigSwitchImportsOnly(st) ==
    st = ERROR_PHOEBE_CONFIG_SUPPORTED_FILE \/ st = ERROR_PHOEBE_CONFIG_LEGACY_FILE
ConfigSwitch(st) ==
    \/ st = ERROR_PHOEBE_CONFIG_SUPPORTED_FILE
    \/ st = ERROR_PHOEBE_CONFIG_LEGACY_FILE
    \/ st = ERROR_PHOEBE_CONFIG_NOT_FOUND

WelcomeTitle   == <<"Welcome to PHOEBE!">>
LegacyTitle    == <<"Importing legacy configuration file">>
SupportedTitle == <<"Importing recent configuration file">>

\* Lines 199-204: the titles of the notices shown for a configuration status.
NoticeTitlesWelcomeUnlessCurrent(st) ==
    (IF st /= SUCCESS THEN <<WelcomeTitle>> ELSE <<>>) \o
    (IF st = ERROR_PHOEBE_CONFIG_LEGACY_FILE THEN <<LegacyTitle>> ELSE <<>>) \o
    (IF st = ERROR_PHOEBE_CONFIG_SUPPORTED_FILE THEN <<SupportedTitle>> ELSE <<>>)
NoticeTitlesSwapped(st) ==
    (IF st = ERROR_PHOEBE_CONFIG_NOT_FOUND THEN <<WelcomeTitle>> ELSE <<>>) \o
    (IF st = ERROR_PHOEBE_CONFIG_LEGACY_FILE THEN <<SupportedTitle>> ELSE <<>>) \o
    (IF st = ERROR_PHOEBE_CONFIG_SUPPORTED_FILE THEN <<LegacyTitle>> ELSE <<>>)
NoticeTitles(st) ==
    (IF st = ERROR_PHOEBE_CONFIG_NOT_FOUND THEN <<WelcomeTitle>> ELSE <<>>) \o
    (IF st = ERROR_PHOEBE_CONFIG_LEGACY_FILE THEN <<LegacyTitle>> ELSE <<>>) \o
    (IF st = ERROR_PHOEBE_CONFIG_SUPPORTED_FILE THEN <<SupportedTitle>> ELSE <<>>)

NoticeCalls(st, ff, fname) ==
    [k \in 1..Len(NoticeTitles(st)) |->
        Call("gui_notice", NoticeTitles(st)[k], "void", ff, fname)]

\* Lines 181-182.
ConfigEntryCallsOverwriteOnly(ff, fname) ==
    <<Call("phoebe_config_entry_add", <<"GUI_CONFIRM_ON_OVERWRITE", "TRUE">>, "void", ff, fname)>>
ConfigEntryCalls(ff, fname) ==
    <<Call("phoebe_config_entry_add", <<"GUI_CONFIRM_ON_OVERWRITE", "TRUE">>, "void", ff, fname),
      Call("phoebe_config_entry_add", <<"GUI_BEEP_AFTER_PLOT_AND_FIT", "FALSE">>, "void", ff, fname)>>

\* ------------------------------------------------------------------- Init
Init ==
    /\ pc = "phoebe_init"
    /\ argv \in SeqsUpTo(Tokens, MaxArgs)
    /\ i = 0
    /\ status = UNINITIALIZED
    /\ configswitch = FALSE
    /\ psl_status = UNINITIALIZED
    /\ PHOEBE_FILEFLAG = FALSE
    /\ PHOEBE_FILENAME = Undefined
    /\ calls = <<Call("gtk_init", <<>>, "void", FALSE, Undefined)>>
    /\ exit_code = <<>>

\* Lines 174-178.
MainPhoebeInitIgnoresFailure ==
    /\ pc = "phoebe_init"
    /\ \E st \in InitOutcomes :
        /\ status' = st
        /\ calls' = Append(calls, Here("phoebe_init", <<>>, st))
    /\ pc' = "phoebe_config_entry_add"
    /\ UNCHANGED <<argv, i, configswitch, psl_status, PHOEBE_FILEFLAG,
                   PHOEBE_FILENAME, exit_code>>
MainPhoebeInit ==
    /\ pc = "phoebe_init"
    /\ \E st \in InitOutcomes :
        /\ status' = st
        /\ IF st /= SUCCESS
           THEN /\ calls' = calls \o <<Here("phoebe_init", <<>>, st),
                                       Here("printf", <<"phoebe_gui_error">>, "void")>>
                /\ pc' = "exited"
                /\ exit_code' = <<0>>
           ELSE /\ calls' = Append(calls, Here("phoebe_init", <<>>, st))
                /\ pc' = "phoebe_config_entry_add"
                /\ exit_code' = exit_code
    /\ UNCHANGED <<argv, i, configswitch, psl_status, PHOEBE_FILEFLAG, PHOEBE_FILENAME>>

\* Lines 181-182.
MainConfigEntryAdd ==
    /\ pc = "phoebe_config_entry_add"
    /\ calls' = calls \o ConfigEntryCalls(PHOEBE_FILEFLAG, PHOEBE_FILENAME)
    /\ pc' = "phoebe_configure"
    /\ UNCHANGED <<argv, i, status, configswitch, psl_status,
                   PHOEBE_FILEFLAG, PHOEBE_FILENAME, exit_code>>

\* Lines 184-193.
MainConfigure ==
    /\ pc = "phoebe_configure"
    /\ \E st \in ConfigureOutcomes :
        /\ status' = st
        /\ configswitch' = (IF ConfigSwitch(st) THEN TRUE ELSE configswitch)
        /\ calls' = Append(calls, Here("phoebe_configure", <<>>, st))
    /\ pc' = "phoebe_gui_init"
    /\ UNCHANGED <<argv, i, psl_status, PHOEBE_FILEFLAG, PHOEBE_FILENAME, exit_code>>

\* Line 195.
MainGuiInitSkipped ==
    /\ pc = "phoebe_gui_init"
    /\ pc' = "call_parse_startup_line"
    /\ UNCHANGED <<argv, i, status, configswitch, psl_status,
                   PHOEBE_FILEFLAG, PHOEBE_FILENAME, calls, exit_code>>
MainGuiInit ==
    /\ pc = "phoebe_gui_init"
    /\ calls' = Append(calls, Here("phoebe_gui_init", <<>>, "void"))
    /\ pc' = "call_parse_startup_line"
    /\ UNCHANGED <<argv, i, status, configswitch, psl_status,
                   PHOEBE_FILEFLAG, PHOEBE_FILENAME, exit_code>>

\* Line 197 and the loop initialisation of line 118.
ParseStartupLineEnter ==
    /\ pc = "call_parse_startup_line"
    /\ i' = 1
    /\ pc' = "parse_startup_line"
    /\ UNCHANGED <<argv, status, configswitch, psl_status,
                   PHOEBE_FILEFLAG, PHOEBE_FILENAME, calls, exit_code>>

\* Lines 118-152: one iteration of the loop, on argv[i].
ParseStartupLineStepStopsOnFailure ==
    /\ pc = "parse_startup_line"
    /\ i < argc
    /\ LET tok == argv[i] IN
       IF IsHelp(tok)
       THEN /\ calls' = calls \o HelpCalls(PHOEBE_FILEFLAG, PHOEBE_FILENAME)
            /\ pc' = "exited"
            /\ exit_code' = PhoebeQuitExitCode
            /\ UNCHANGED <<i, psl_status, PHOEBE_FILEFLAG, PHOEBE_FILENAME>>
       ELSE IF IsVersion(tok)
       THEN /\ calls' = calls \o VersionCalls(PHOEBE_FILEFLAG, PHOEBE_FILENAME)
            /\ pc' = "exited"
            /\ exit_code' = PhoebeQuitExitCode
            /\ UNCHANGED <<i, psl_status, PHOEBE_FILEFLAG, PHOEBE_FILENAME>>
       ELSE IF IsParamFile(tok)
       THEN \E st \in LoadOutcomes :
            /\ psl_status' = st
            /\ calls' = calls \o LoadCalls(tok, st, PHOEBE_FILEFLAG, PHOEBE_FILENAME)
            /\ PHOEBE_FILEFLAG' = FileFlagAfterLoad(st, PHOEBE_FILEFLAG)
            /\ PHOEBE_FILENAME' = FileNameAfterLoad(st, tok, PHOEBE_FILENAME)
            /\ i' = i + 1
            /\ pc' = (IF st /= SUCCESS THEN "exited" ELSE pc)
            /\ exit_code' = (IF st /= SUCCESS THEN <<0>> ELSE exit_code)
       ELSE /\ i' = i + 1
            /\ UNCHANGED <<pc, exit_code, psl_status, PHOEBE_FILEFLAG,
                           PHOEBE_FILENAME, calls>>
    /\ UNCHANGED <<argv, status, configswitch>>
ParseStartupLineStep ==
    /\ pc = "parse_startup_line"
    /\ i < argc
    /\ LET tok == argv[i] IN
       IF IsHelp(tok)
       THEN /\ calls' = calls \o HelpCalls(PHOEBE_FILEFLAG, PHOEBE_FILENAME)
            /\ pc' = "exited"
            /\ exit_code' = PhoebeQuitExitCode
            /\ UNCHANGED <<i, psl_status, PHOEBE_FILEFLAG, PHOEBE_FILENAME>>
       ELSE IF IsVersion(tok)
       THEN /\ calls' = calls \o VersionCalls(PHOEBE_FILEFLAG, PHOEBE_FILENAME)
            /\ pc' = "exited"
            /\ exit_code' = PhoebeQuitExitCode
            /\ UNCHANGED <<i, psl_status, PHOEBE_FILEFLAG, PHOEBE_FILENAME>>
       ELSE IF IsParamFile(tok)
       THEN \E st \in LoadOutcomes :
            /\ psl_status' = st
            /\ calls' = calls \o LoadCalls(tok, st, PHOEBE_FILEFLAG, PHOEBE_FILENAME)
            /\ PHOEBE_FILEFLAG' = FileFlagAfterLoad(st, PHOEBE_FILEFLAG)
            /\ PHOEBE_FILENAME' = FileNameAfterLoad(st, tok, PHOEBE_FILENAME)
            /\ i' = i + 1
            /\ UNCHANGED <<pc, exit_code>>
       ELSE /\ i' = i + 1
            /\ UNCHANGED <<pc, exit_code, psl_status, PHOEBE_FILEFLAG,
                           PHOEBE_FILENAME, calls>>
    /\ UNCHANGED <<argv, status, configswitch>>

\* Line 154: the loop is over, parse_startup_line returns to main.
ParseStartupLineReturn ==
    /\ pc = "parse_startup_line"
    /\ ~(i < argc)
    /\ pc' = "gui_notice"
    /\ UNCHANGED <<argv, i, status, configswitch, psl_status,
                   PHOEBE_FILEFLAG, PHOEBE_FILENAME, calls, exit_code>>

\* Lines 199-204.
MainNoticeOnLastStatus ==
    /\ pc = "gui_notice"
    /\ calls' = calls \o NoticeCalls(IF psl_status = UNINITIALIZED THEN status ELSE psl_status,
                                     PHOEBE_FILEFLAG, PHOEBE_FILENAME)
    /\ pc' = "configuration_dialog"
    /\ UNCHANGED <<argv, i, status, configswitch, psl_status,
                   PHOEBE_FILEFLAG, PHOEBE_FILENAME, exit_code>>
MainNotice ==
    /\ pc = "gui_notice"
    /\ calls' = calls \o NoticeCalls(status, PHOEBE_FILEFLAG, PHOEBE_FILENAME)
    /\ pc' = "configuration_dialog"
    /\ UNCHANGED <<argv, i, status, configswitch, psl_status,
                   PHOEBE_FILEFLAG, PHOEBE_FILENAME, exit_code>>

\* Lines 206-207.
MainConfigurationDialog ==
    /\ pc = "configuration_dialog"
    /\ calls' = (IF configswitch
                 THEN Append(calls, Here("gui_show_configuration_dialog", <<>>, "void"))
                 ELSE calls)
    /\ pc' = "gtk_main"
    /\ UNCHANGED <<argv, i, status, configswitch, psl_status,
                   PHOEBE_FILEFLAG, PHOEBE_FILENAME, exit_code>>

\* Line 209: control is handed to the host event loop.
MainGtkMain ==
    /\ pc = "gtk_main"
    /\ calls' = Append(calls, Here("gtk_main", <<>>, "void"))
    /\ pc' = "in_gtk_main"
    /\ UNCHANGED <<argv, i, status, configswitch, psl_status,
                   PHOEBE_FILEFLAG, PHOEBE_FILENAME, exit_code>>

\* Line 209: the host event loop returns.
GtkMainReturn ==
    /\ pc = "in_gtk_main"
    /\ pc' = "phoebe_gui_quit"
    /\ UNCHANGED <<argv, i, status, configswitch, psl_status,
                   PHOEBE_FILEFLAG, PHOEBE_FILENAME, calls, exit_code>>

\* Line 212.
MainGuiQuitSkipped ==
    /\ pc = "phoebe_gui_quit"
    /\ pc' = "phoebe_quit"
    /\ UNCHANGED <<argv, i, status, configswitch, psl_status,
                   PHOEBE_FILEFLAG, PHOEBE_FILENAME, calls, exit_code>>
MainGuiQuit ==
    /\ pc = "phoebe_gui_quit"
    /\ calls' = Append(calls, Here("phoebe_gui_quit", <<>>, "void"))
    /\ pc' = "phoebe_quit"
    /\ UNCHANGED <<argv, i, status, configswitch, psl_status,
                   PHOEBE_FILEFLAG, PHOEBE_FILENAME, exit_code>>

\* Lines 214-216.
MainQuit ==
    /\ pc = "phoebe_quit"
    /\ calls' = calls \o phoebe_quit(PHOEBE_FILEFLAG, PHOEBE_FILENAME)
    /\ pc' = "exited"
    /\ exit_code' = PhoebeQuitExitCode
    /\ UNCHANGED <<argv, i, status, configswitch, psl_status,
                   PHOEBE_FILEFLAG, PHOEBE_FILENAME>>

Next ==
    \/ MainPhoebeInit
    \/ MainConfigEntryAdd
    \/ MainConfigure
    \/ MainGuiInit
    \/ ParseStartupLineEnter
    \/ ParseStartupLineStep
    \/ ParseStartupLineReturn
    \/ MainNotice
    \/ MainConfigurationDialog
    \/ MainGtkMain
    \/ GtkMainReturn
    \/ MainGuiQuit
    \/ MainQuit

Spec == Init /\ [][Next]_vars

\* The bootstrap sequence is straight-line code: every step up to and
\* including the call of gtk_main is taken as soon as it can be; the host
\* event loop itself need never return.
BootstrapStep ==
    \/ MainPhoebeInit
    \/ MainConfigEntryAdd
    \/ MainConfigure
    \/ MainGuiInit
    \/ ParseStartupLineEnter
    \/ ParseStartupLineStep
    \/ ParseStartupLineReturn
    \/ MainNotice
    \/ MainConfigurationDialog
    \/ MainGtkMain

FairSpec == Init /\ [][Next]_vars /\ WF_vars(BootstrapStep)

TypeOK ==
    /\ pc \in {"phoebe_init", "phoebe_config_entry_add", "phoebe_configure",
               "phoebe_gui_init", "call_parse_startup_line", "parse_startup_line",
               "gui_notice", "configuration_dialog", "gtk_main", "in_gtk_main",
               "phoebe_gui_quit", "phoebe_quit", "exited"}
    /\ argv \in Seq(Tokens) /\ Len(argv) <= MaxArgs
    /\ i \in 0..argc
    /\ configswitch \in BOOLEAN
    /\ PHOEBE_FILEFLAG \in BOOLEAN
    /\ exit_code \in {<<>>, <<0>>}

\* ------------------------------------------------------------ properties
\* The token classes as the command-line interface documents them.
HelpTokens    == {Tok_h, Tok_q, Tok_help}
VersionTokens == {Tok_v, Tok_version}
StopTokens    == HelpTokens \cup VersionTokens
DashPrefixed(t) == Len(t) >= 1 /\ t[1] = "-"
HasStop(a)    == \E k \in 1..Len(a) : a[k] \in StopTokens
FirstStop(a)  ==
    CHOOSE k \in 1..Len(a) : a[k] \in StopTokens /\ \A j \in 1..(k - 1) : a[j] \notin StopTokens
PathsOf(a)    == SelectSeq(a, LAMBDA t : ~DashPrefixed(t))

Called(fn)    == \E k \in 1..Len(calls) : calls[k].fn = fn
CallsOf(fn)   == SelectSeq(calls, LAMBDA c : c.fn = fn)
Loads         == CallsOf("phoebe_open_parameter_file")
LoadedPaths   == [k \in 1..Len(Loads) |-> Loads[k].arg]
FailedLoads   == SelectSeq(Loads, LAMBDA c : c.ret /= SUCCESS)
GoodLoads     == SelectSeq(Loads, LAMBDA c : c.ret = SUCCESS)
Diagnostics   == CallsOf("phoebe_gui_output")
Notices       == CallsOf("gui_notice")
EngineUp      == Len(calls) >= 2 /\ calls[2].fn = "phoebe_init" /\ calls[2].ret = SUCCESS
AfterParse    ==
    pc \in {"gui_notice", "configuration_dialog", "gtk_main", "in_gtk_main",
            "phoebe_gui_quit", "phoebe_quit"}
NoticeStepDone ==
    pc \in {"configuration_dialog", "gtk_main", "in_gtk_main", "phoebe_gui_quit", "phoebe_quit"}
    \/ Called("gtk_main")
DialogStepDone ==
    pc \in {"gtk_main", "in_gtk_main", "phoebe_gui_quit", "phoebe_quit"} \/ Called("gtk_main")

\* C1: when the command line holds a Help or Version token, the first one at
\* position s, the arguments before s are processed in input order (each
\* token not starting with '-' goes to the parameter-file loader), nothing
\* after s is processed (no load, no diagnostic, no change of
\* PHOEBE_FILEFLAG / PHOEBE_FILENAME), and the process ends with exit code 0.
C1_StopAtFirstHelpOrVersion ==
    HasStop(argv) =>
        LET s == FirstStop(argv) IN
        /\ i <= s
        /\ ~AfterParse
        /\ pc = "parse_startup_line" => LoadedPaths = PathsOf(SubSeq(argv, 1, i - 1))
        /\ (pc = "exited" /\ EngineUp) =>
              /\ i = s
              /\ LoadedPaths = PathsOf(SubSeq(argv, 1, s - 1))
              /\ Len(Diagnostics) = Len(FailedLoads)
              /\ calls[Len(calls)].fn = "phoebe_quit"
              /\ calls[Len(calls) - 1].fn = "printf"
              /\ calls[Len(calls)].fileflag = PHOEBE_FILEFLAG
              /\ calls[Len(calls)].filename = PHOEBE_FILENAME
              /\ \A k \in 1..(Len(calls) - 2) : calls[k].fn \notin {"printf", "phoebe_quit"}
              /\ exit_code = <<0>>

\* A path, then "-?", then another path: the process has ended after
\* loading only the first path.
C1_Witness ==
    /\ pc = "exited"
    /\ Len(argv) = 3
    /\ argv[1] = Tok_a /\ argv[2] = Tok_q /\ argv[3] = Tok_b
    /\ LoadedPaths = <<Tok_a>>
    /\ exit_code = <<0>>

\* C2: once the notice/dialog step is over, for each of the statuses
\* SUCCESS (current), imported-supported, imported-legacy and not-found, the
\* settings dialog has been opened iff the status is not SUCCESS; before that
\* step it has not been opened.
C2_DialogIffNotCurrent ==
    /\ ~DialogStepDone => ~Called("gui_show_configuration_dialog")
    /\ \A st \in {SUCCESS, ERROR_PHOEBE_CONFIG_SUPPORTED_FILE,
                  ERROR_PHOEBE_CONFIG_LEGACY_FILE, ERROR_PHOEBE_CONFIG_NOT_FOUND} :
          (DialogStepDone /\ status = st) =>
              (Called("gui_show_configuration_dialog") <=> st /= SUCCESS)

C2_Witness ==
    /\ pc = "gtk_main"
    /\ status = ERROR_PHOEBE_CONFIG_NOT_FOUND
    /\ Called("gui_show_configuration_dialog")

\* C3: one step that hands argv[i] to phoebe_open_parameter_file: on SUCCESS
\* PHOEBE_FILEFLAG is TRUE and PHOEBE_FILENAME is the path afterwards; on
\* failure both are unchanged, no refresh is called and exactly one
\* non-empty diagnostic goes to phoebe_gui_output.
C3_Step ==
    (pc = "parse_startup_line" /\ i < argc /\ Len(calls') > Len(calls)
       /\ calls'[Len(calls) + 1].fn = "phoebe_open_parameter_file") =>
        LET new  == SubSeq(calls', Len(calls) + 1, Len(calls'))
            path == argv[i]
        IN  /\ new[1].arg = path
            /\ SubSeq(calls', 1, Len(calls)) = calls
            /\ new[1].ret = SUCCESS =>
                  /\ PHOEBE_FILEFLAG' = TRUE
                  /\ PHOEBE_FILENAME' = path
            /\ new[1].ret /= SUCCESS =>
                  /\ PHOEBE_FILEFLAG' = PHOEBE_FILEFLAG
                  /\ PHOEBE_FILENAME' = PHOEBE_FILENAME
                  /\ Len(new) = 2
                  /\ new[2].fn = "phoebe_gui_output"
                  /\ Len(new[2].arg) > 0
C3_LoadOutcome == [][C3_Step]_vars

\* A failed load after a successful one: the earlier file is still the
\* session file and the diagnostic was written.
C3_Witness ==
    /\ Len(Loads) = 2
    /\ Loads[1].ret = SUCCESS /\ Loads[2].ret /= SUCCESS
    /\ PHOEBE_FILEFLAG /\ PHOEBE_FILENAME = Loads[1].arg
    /\ Loads[1].arg /= Loads[2].arg
    /\ Len(Diagnostics) = 1

\* C4 as stated: after the host event loop returned, the engine teardown
\* (phoebe_quit) comes first, then the GUI teardown (phoebe_gui_quit).
C4_EngineThenGui ==
    (pc = "exited" /\ Called("gtk_main")) =>
        \E j, k \in 1..Len(calls) :
            /\ j < k
            /\ calls[j].fn = "phoebe_quit"
            /\ calls[k].fn = "phoebe_gui_quit"

\* C4 amended: after the host event loop returned, teardown runs
\* unconditionally, first the GUI teardown (phoebe_gui_quit), then the
\* engine teardown (phoebe_quit), and nothing else.
C4_GuiThenEngine ==
    /\ pc = "phoebe_quit" =>
          /\ calls[Len(calls)].fn = "phoebe_gui_quit"
          /\ calls[Len(calls) - 1].fn = "gtk_main"
    /\ (pc = "exited" /\ Called("gtk_main")) =>
          /\ calls[Len(calls)].fn = "phoebe_quit"
          /\ calls[Len(calls) - 1].fn = "phoebe_gui_quit"
          /\ calls[Len(calls) - 2].fn = "gtk_main"
          /\ Len(CallsOf("phoebe_quit")) = 1
          /\ Len(CallsOf("phoebe_gui_quit")) = 1

C4_Witness ==
    /\ pc = "exited"
    /\ Called("gtk_main")
    /\ Called("phoebe_gui_quit")
    /\ calls[Len(calls)].fn = "phoebe_quit"

\* C5: whenever the engine came up, GUI_CONFIRM_ON_OVERWRITE (default TRUE)
\* and GUI_BEEP_AFTER_PLOT_AND_FIT (default FALSE) are registered, once
\* each, before phoebe_configure is called, whatever status it then returns.
C5_RegisterBeforeConfigure ==
    LET regs == CallsOf("phoebe_config_entry_add") IN
    /\ (EngineUp /\ pc \notin {"phoebe_init", "phoebe_config_entry_add"}) =>
          /\ Len(regs) = 2
          /\ regs[1].arg = <<"GUI_CONFIRM_ON_OVERWRITE", "TRUE">>
          /\ regs[2].arg = <<"GUI_BEEP_AFTER_PLOT_AND_FIT", "FALSE">>
    /\ \A k \in 1..Len(calls) :
          calls[k].fn = "phoebe_configure" =>
              /\ k > 2
              /\ calls[k - 1].fn = "phoebe_config_entry_add"
              /\ calls[k - 1].arg[1] = "GUI_BEEP_AFTER_PLOT_AND_FIT"
              /\ calls[k - 2].fn = "phoebe_config_entry_add"
              /\ calls[k - 2].arg[1] = "GUI_CONFIRM_ON_OVERWRITE"

C5_Witness ==
    /\ pc = "phoebe_gui_init"
    /\ status = ERROR_PHOEBE_CONFIG_NOT_FOUND
    /\ Len(CallsOf("phoebe_config_entry_add")) = 2
    /\ calls[Len(calls)].fn = "phoebe_configure"

\* C6: when phoebe_init fails the process prints a diagnostic and ends at
\* once: nothing is registered, configured, initialized, parsed, shown or
\* torn down.
C6_InitFailureIsFatal ==
    (Len(calls) >= 2 /\ calls[2].fn = "phoebe_init" /\ calls[2].ret /= SUCCESS) =>
        /\ pc = "exited"
        /\ exit_code /= <<>>
        /\ Len(calls) = 3
        /\ calls[3].fn = "printf"
        /\ calls[3].arg = <<"phoebe_gui_error">>
        /\ i = 0
        /\ ~PHOEBE_FILEFLAG /\ PHOEBE_FILENAME = Undefined

C6_Witness ==
    /\ pc = "exited"
    /\ status = ERROR_OTHER
    /\ Len(argv) = 2
    /\ calls[2].fn = "phoebe_init" /\ calls[2].ret = ERROR_OTHER
    /\ ~Called("phoebe_configure")

\* The notice the documentation assigns to each status.
ExpectedNotice(st) ==
    CASE st = ERROR_PHOEBE_CONFIG_NOT_FOUND      -> <<WelcomeTitle>>
      [] st = ERROR_PHOEBE_CONFIG_LEGACY_FILE    -> <<LegacyTitle>>
      [] st = ERROR_PHOEBE_CONFIG_SUPPORTED_FILE -> <<SupportedTitle>>
      [] st = SUCCESS                            -> <<>>

\* C7: after the notice step the notices shown are exactly the one the
\* status calls for (not-found: welcome, legacy: legacy import, supported:
\* recent import, SUCCESS: none); never more than one; none before every
\* argument was processed; and the notice precedes the settings dialog.
C7_NoticeByStatus ==
    /\ Len(Notices) <= 1
    /\ ~NoticeStepDone => Len(Notices) = 0
    /\ (NoticeStepDone /\ status /= ERROR_OTHER) =>
          [k \in 1..Len(Notices) |-> Notices[k].arg] = ExpectedNotice(status)
    /\ \A k \in 1..Len(calls) :
          calls[k].fn = "gui_notice" =>
              /\ i = argc
              /\ LoadedPaths = PathsOf(argv)
              /\ \A j \in (k + 1)..Len(calls) :
                    calls[j].fn \notin {"phoebe_open_parameter_file", "phoebe_gui_output",
                                        "gui_reinit_treeviews", "gui_set_values_to_widgets"}
              /\ \A j \in 1..k : calls[j].fn /= "gui_show_configuration_dialog"

C7_Witness ==
    /\ pc = "gtk_main"
    /\ status = ERROR_PHOEBE_CONFIG_LEGACY_FILE
    /\ Len(Notices) = 1 /\ Notices[1].arg = LegacyTitle
    /\ Len(Loads) = 2
    /\ calls[Len(calls)].fn = "gui_show_configuration_dialog"
    /\ calls[Len(calls) - 1].fn = "gui_notice"

\* C8: after a command line without Help/Version was processed,
\* PHOEBE_FILEFLAG is TRUE iff some load succeeded, PHOEBE_FILENAME is the
\* path of the last load that succeeded, there is one diagnostic per failed
\* load, and every path was handed to the loader whatever failed before it.
C8_LastSuccessfulLoadWins ==
    (~HasStop(argv) /\ (AfterParse \/ (pc = "exited" /\ EngineUp))) =>
        /\ LoadedPaths = PathsOf(argv)
        /\ PHOEBE_FILEFLAG <=> Len(GoodLoads) > 0
        /\ Len(GoodLoads) > 0 => PHOEBE_FILENAME = GoodLoads[Len(GoodLoads)].arg
        /\ Len(GoodLoads) = 0 => PHOEBE_FILENAME = Undefined
        /\ Len(Diagnostics) = Len(FailedLoads)

\* Three paths: the first fails, the second and third succeed with
\* different names.
C8_Witness ==
    /\ pc = "gui_notice"
    /\ Len(Loads) = 3
    /\ Loads[1].ret /= SUCCESS /\ Loads[2].ret = SUCCESS /\ Loads[3].ret = SUCCESS
    /\ Loads[2].arg /= Loads[3].arg
    /\ PHOEBE_FILENAME = Loads[3].arg
    /\ Len(Diagnostics) = 1

\* C9: with a Help or Version token on the command line, whatever
\* phoebe_configure returned, no notice is shown, the settings dialog is not
\* opened and the host event loop is not entered.
C9_HelpVersionShowNoUi ==
    HasStop(argv) =>
        /\ ~Called("gui_notice")
        /\ ~Called("gui_show_configuration_dialog")
        /\ ~Called("gtk_main")
        /\ pc \notin {"configuration_dialog", "gtk_main", "in_gtk_main",
                      "phoebe_gui_quit", "phoebe_quit"}

C9_Witness ==
    /\ pc = "exited"
    /\ status = ERROR_PHOEBE_CONFIG_NOT_FOUND
    /\ configswitch
    /\ argv = <<Tok_version>>
    /\ calls[Len(calls)].fn = "phoebe_quit"

\* C10: a step on a token that starts with '-' and is none of -h, -?,
\* --help, -v, --version calls nothing, leaves PHOEBE_FILEFLAG and
\* PHOEBE_FILENAME alone, does not end the process and moves on to the
\* next argument.
C10_Step ==
    (pc = "parse_startup_line" /\ i < argc
       /\ DashPrefixed(argv[i]) /\ argv[i] \notin StopTokens) =>
        /\ calls' = calls
        /\ PHOEBE_FILEFLAG' = PHOEBE_FILEFLAG
        /\ PHOEBE_FILENAME' = PHOEBE_FILENAME
        /\ pc' = pc
        /\ exit_code' = exit_code
        /\ i' = i + 1
C10_UnrecognizedIgnored == [][C10_Step]_vars

\* "-x" was skipped and the path after it was loaded.
C10_Witness ==
    /\ pc = "parse_startup_line"
    /\ i = 3
    /\ argv[1] = Tok_x /\ argv[2] = Tok_a
    /\ LoadedPaths = <<Tok_a>>
    /\ PHOEBE_FILEFLAG

StopPathTaken ==
    /\ HasStop(argv)
    /\ pc = "exited"
    /\ EngineUp

\* C11 as stated: on the Help/Version path neither the engine teardown
\* (phoebe_quit) nor the GUI teardown (phoebe_gui_quit) is called.
C11_NoTeardownOnHelpVersion ==
    StopPathTaken => (~Called("phoebe_quit") /\ ~Called("phoebe_gui_quit"))

\* C11 amended: on the Help/Version path the GUI teardown (phoebe_gui_quit)
\* is never called, and the engine teardown (phoebe_quit) is called exactly
\* once, right after the usage or version text, as the last call of the run.
C11_EngineTeardownOnlyOnHelpVersion ==
    /\ HasStop(argv) => ~Called("phoebe_gui_quit")
    /\ StopPathTaken =>
          /\ Len(CallsOf("phoebe_quit")) = 1
          /\ calls[Len(calls)].fn = "phoebe_quit"
          /\ calls[Len(calls) - 1].fn = "printf"
          /\ calls[Len(calls) - 1].arg \in {<<"usage">>, <<"version">>}

C11_Witness ==
    /\ StopPathTaken
    /\ argv[FirstStop(argv)] = Tok_help
    /\ Called("phoebe_gui_init")
    /\ calls[Len(calls)].fn = "phoebe_quit"
    /\ ~Called("phoebe_gui_quit")

IsRefresh(c) == c.fn \in {"gui_reinit_treeviews", "gui_set_values_to_widgets"}

\* The load a refresh call belongs to: the last load before it.
LoadBefore(k) ==
    LET js == {j \in 1..(k - 1) : calls[j].fn = "phoebe_open_parameter_file"}
    IN  CHOOSE j \in js : \A j2 \in js : j2 <= j

\* C12 as stated: every refresh triggered by a load sees PHOEBE_FILEFLAG =
\* TRUE and PHOEBE_FILENAME = the path of that load.
C12_RefreshSeesNewFile ==
    \A k \in 1..Len(calls) :
        IsRefresh(calls[k]) =>
            /\ calls[k].fileflag = TRUE
            /\ calls[k].filename = calls[LoadBefore(k)].arg

\* C12 amended: on a successful load the refresh (gui_reinit_treeviews, then
\* gui_set_values_to_widgets) is triggered first and PHOEBE_FILEFLAG /
\* PHOEBE_FILENAME are set to TRUE / path afterwards, in the same step: each
\* refresh sees the values from before its load, and the values are those of
\* the load once the step is over.
C12_RefreshThenUpdate ==
    /\ \A k \in 1..Len(calls) :
          calls[k].fn = "gui_reinit_treeviews" =>
              /\ k > 1 /\ k < Len(calls)
              /\ calls[k - 1].fn = "phoebe_open_parameter_file"
              /\ calls[k - 1].ret = SUCCESS
              /\ calls[k + 1].fn = "gui_set_values_to_widgets"
              /\ calls[k].fileflag = calls[k - 1].fileflag
              /\ calls[k].filename = calls[k - 1].filename
              /\ calls[k + 1].fileflag = calls[k - 1].fileflag
              /\ calls[k + 1].filename = calls[k - 1].filename
              /\ IF k + 2 <= Len(calls)
                 THEN calls[k + 2].fileflag = TRUE /\ calls[k + 2].filename = calls[k - 1].arg
                 ELSE PHOEBE_FILEFLAG = TRUE /\ PHOEBE_FILENAME = calls[k - 1].arg
    /\ \A k \in 1..Len(calls) :
          calls[k].fn = "gui_set_values_to_widgets" =>
              k > 1 /\ calls[k - 1].fn = "gui_reinit_treeviews"
    /\ Len(CallsOf("gui_reinit_treeviews")) = Len(GoodLoads)

\* Two successful loads of different paths: the refresh of the second saw
\* the first path, and the second path is the session file now.
C12_Witness ==
    /\ Len(GoodLoads) = 2 /\ Len(Loads) = 2
    /\ Loads[1].arg /= Loads[2].arg
    /\ calls[Len(calls)].fn = "gui_set_values_to_widgets"
    /\ calls[Len(calls)].filename = Loads[1].arg
    /\ PHOEBE_FILENAME = Loads[2].arg

\* C13: PHOEBE_FILEFLAG / PHOEBE_FILENAME change only in the step that
\* handles a successfully loaded path, and then become TRUE / that path;
\* every other step leaves both alone; PHOEBE_FILEFLAG never goes back from
\* TRUE to FALSE.
C13_Step ==
    /\ PHOEBE_FILEFLAG => PHOEBE_FILEFLAG'
    /\ (PHOEBE_FILEFLAG' /= PHOEBE_FILEFLAG \/ PHOEBE_FILENAME' /= PHOEBE_FILENAME) =>
          /\ pc = "parse_startup_line" /\ i < argc
          /\ ~DashPrefixed(argv[i])
          /\ Len(calls') > Len(calls)
          /\ calls'[Len(calls) + 1].fn = "phoebe_open_parameter_file"
          /\ calls'[Len(calls) + 1].arg = argv[i]
          /\ calls'[Len(calls) + 1].ret = SUCCESS
          /\ PHOEBE_FILEFLAG' = TRUE
          /\ PHOEBE_FILENAME' = argv[i]
C13_SingleWriter == [][C13_Step]_vars

\* A whole run with an ignored option, a failed and a successful load: the
\* session file is that of the one successful load.
C13_Witness ==
    /\ pc = "exited"
    /\ Called("phoebe_gui_quit")
    /\ Len(GoodLoads) = 1 /\ Len(FailedLoads) = 1
    /\ \E k \in 1..Len(argv) : argv[k] = Tok_dash
    /\ PHOEBE_FILEFLAG /\ PHOEBE_FILENAME = GoodLoads[1].arg

NoticeTitlesShown == [k \in 1..Len(Notices) |-> Notices[k].arg]
DialogShown       == Called("gui_show_configuration_dialog")

\* The notice and the dialog as functions of the configuration status alone.
NoticeOfStatus ==
    [st \in ConfigureOutcomes |->
        IF st \in {SUCCESS, ERROR_OTHER} THEN <<>> ELSE ExpectedNotice(st)]
DialogOfStatus ==
    [st \in ConfigureOutcomes |-> st \notin {SUCCESS, ERROR_OTHER}]

\* C14: phoebe_configure is called once and main's status keeps its return
\* value for the rest of the run, whatever the loads inside
\* parse_startup_line return; after the notice/dialog step the notice and
\* the dialog are a function of that status only, so two runs with the same
\* status and different command lines or load outcomes show the same.
C14_DecisionDependsOnStatusOnly ==
    /\ Called("phoebe_configure") =>
          /\ Len(CallsOf("phoebe_configure")) = 1
          /\ status = CallsOf("phoebe_configure")[1].ret
    /\ (NoticeStepDone /\ status \in ConfigureOutcomes) =>
          NoticeTitlesShown = NoticeOfStatus[status]
    /\ (DialogStepDone /\ status \in ConfigureOutcomes) =>
          (DialogShown <=> DialogOfStatus[status])

\* Not-found configuration, then a successful and a failed load: the welcome
\* notice and the dialog are shown all the same.
C14_Witness ==
    /\ pc = "gtk_main"
    /\ status = ERROR_PHOEBE_CONFIG_NOT_FOUND
    /\ psl_status = ERROR_FILE_NOT_FOUND
    /\ Len(GoodLoads) = 1 /\ Len(FailedLoads) = 1
    /\ NoticeTitlesShown = <<WelcomeTitle>>
    /\ DialogShown

\* The four startup decisions: the notice shown and whether the dialog opens.
StartupDecisions ==
    {<<(<<>>), FALSE>>, <<(<<WelcomeTitle>>), TRUE>>,
     <<(<<LegacyTitle>>), TRUE>>, <<(<<SupportedTitle>>), TRUE>>}

\* C15: whatever phoebe_configure returns (SUCCESS, supported, legacy,
\* not found or any other error), the run takes exactly one of the four
\* startup decisions; another error gives the decision "no notice, no
\* dialog"; no status gives two notices, and the dialog opens only for a
\* status other than SUCCESS.
C15_EveryOutcomeHasOneDecision ==
    /\ Len(Notices) <= 1
    /\ DialogShown => status /= SUCCESS
    /\ NoticeStepDone /\ ~DialogStepDone =>
          \E d \in StartupDecisions : d[1] = NoticeTitlesShown
    /\ DialogStepDone =>
          /\ <<NoticeTitlesShown, DialogShown>> \in StartupDecisions
          /\ status = ERROR_OTHER => <<NoticeTitlesShown, DialogShown>> = <<(<<>>), FALSE>>

C15_Witness ==
    /\ pc = "gtk_main"
    /\ status = ERROR_OTHER
    /\ Len(Notices) = 0
    /\ ~DialogShown

\* Tokenizing: the action of one token, as the interface documents it.
Classify(tok) ==
    IF tok \in HelpTokens THEN "Help"
    ELSE IF tok \in VersionTokens THEN "Version"
    ELSE IF DashPrefixed(tok) THEN "Unrecognized"
    ELSE "ParamFile"

Tokenize(a) == [k \in 1..Len(a) |-> [action |-> Classify(a[k]), token |-> a[k]]]

\* Interpreting a sequence of actions in order: the calls they lead to, up
\* to the outcome of the loads.
RECURSIVE Interpret(_)
Interpret(acts) ==
    IF acts = <<>> THEN <<>>
    ELSE LET act == Head(acts) IN
         CASE act.action = "Help"         -> <<[fn |-> "printf", arg |-> <<"usage">>]>>
           [] act.action = "Version"      -> <<[fn |-> "printf", arg |-> <<"version">>]>>
           [] act.action = "ParamFile"    ->
                <<[fn |-> "phoebe_open_parameter_file", arg |-> act.token]>> \o Interpret(Tail(acts))
           [] act.action = "Unrecognized" -> Interpret(Tail(acts))

\* What parse_startup_line did so far: its loads and printed texts.
ParseEvents ==
    LET evs == SelectSeq(calls, LAMBDA c :
                   \/ c.fn = "phoebe_open_parameter_file"
                   \/ (c.fn = "printf" /\ c.arg \in {<<"usage">>, <<"version">>}))
    IN  [k \in 1..Len(evs) |-> [fn |-> evs[k].fn, arg |-> evs[k].arg]]

\* C16: each token gives exactly one action (-h, -?, --help: Help; -v,
\* --version: Version; another token starting with '-': Unrecognized; any
\* other token, the empty string included: ParamFile of that token), and the
\* one-pass loop does what interpreting the tokenized command line in order
\* does: inside the loop for the tokens handled so far, after it for the
\* whole command line.
C16_LoopEqualsTokenizeThenInterpret ==
    /\ pc = "parse_startup_line" =>
          ParseEvents = Interpret(Tokenize(SubSeq(argv, 1, i - 1)))
    /\ (AfterParse \/ (pc = "exited" /\ EngineUp)) =>
          ParseEvents = Interpret(Tokenize(argv))
    /\ pc \in {"phoebe_init", "phoebe_config_entry_add", "phoebe_configure",
               "phoebe_gui_init", "call_parse_startup_line"} => ParseEvents = <<>>
    /\ \A k \in 1..Len(calls) :
          calls[k].fn = "phoebe_open_parameter_file" => Classify(calls[k].arg) = "ParamFile"

\* The empty string was loaded as a parameter file, "-" was skipped, and
\* "--help" then ended the run.
C16_Witness ==
    /\ pc = "exited"
    /\ argv = <<Tok_empty, Tok_dash, Tok_help>>
    /\ Len(ParseEvents) = 2
    /\ ParseEvents[1] = [fn |-> "phoebe_open_parameter_file", arg |-> Tok_empty]
    /\ ParseEvents[2].fn = "printf"

\* C17: when phoebe_init succeeded and the command line holds no
\* Help/Version token, the run eventually enters the host event loop,
\* whatever phoebe_configure and the loads return; it enters it once, and
\* only after every argument was handled, each path loaded once in order.
C17_HandoffSafety ==
    /\ Len(CallsOf("gtk_main")) <= 1
    /\ Called("gtk_main") =>
          /\ ~HasStop(argv)
          /\ i = argc
          /\ LoadedPaths = PathsOf(argv)
    /\ (pc = "parse_startup_line" /\ ~HasStop(argv)) =>
          LoadedPaths = PathsOf(SubSeq(argv, 1, i - 1))
C17_EventuallyHostLoop ==
    /\ []C17_HandoffSafety
    /\ (EngineUp /\ ~HasStop(argv) /\ ~Called("gtk_main")) ~> (pc = "in_gtk_main")

\* The host loop is entered after an ignored option and two failed loads.
C17_Witness ==
    /\ pc = "in_gtk_main"
    /\ Len(argv) = 3
    /\ \E k \in 1..3 : DashPrefixed(argv[k])
    /\ Len(FailedLoads) = 2 /\ Len(GoodLoads) = 0
    /\ calls[Len(calls)].fn = "gtk_main"

UiCalls ==
    {"phoebe_open_parameter_file", "phoebe_gui_output", "gui_reinit_treeviews",
     "gui_set_values_to_widgets", "gui_notice", "gui_show_configuration_dialog", "gtk_main"}

\* C18: phoebe_gui_init is called once, right after phoebe_configure and
\* before the first argument is looked at; every load, refresh, diagnostic,
\* notice and the settings dialog come after it and none comes after
\* phoebe_gui_quit.
C18_GuiInitBracketsUi ==
    /\ Len(CallsOf("phoebe_gui_init")) <= 1
    /\ \A k \in 1..Len(calls) :
          calls[k].fn = "phoebe_gui_init" =>
              k > 1 /\ calls[k - 1].fn = "phoebe_configure"
    /\ pc = "call_parse_startup_line" =>
          calls[Len(calls)].fn = "phoebe_gui_init" /\ i = 0
    /\ pc \in {"parse_startup_line", "gui_notice", "configuration_dialog", "gtk_main"} =>
          Called("phoebe_gui_init") /\ ~Called("phoebe_gui_quit")
    /\ \A k \in 1..Len(calls) :
          calls[k].fn \in UiCalls =>
              /\ \E j \in 1..(k - 1) : calls[j].fn = "phoebe_gui_init"
              /\ \A j \in 1..(k - 1) : calls[j].fn /= "phoebe_gui_quit"

\* A whole run with a load and its refresh, a notice and the dialog, all
\* between phoebe_gui_init and phoebe_gui_quit.
C18_Witness ==
    /\ pc = "exited"
    /\ Called("phoebe_gui_quit")
    /\ Called("gui_reinit_treeviews")
    /\ Called("gui_notice")
    /\ Called("gui_show_configuration_dialog")
====
